---- MODULE Spec2Model ----
(***************************************************************************)
(* Model of the jarvis voice bridge (backend/src): the upstream            *)
(* transcription link (services/deepgram_direct.py), the turn callback     *)
(* and speech output of the pipeline (pipeline.py) and the per-connection  *)
(* message loop of the server (server.py).                                 *)
(*                                                                         *)
(* Everything runs on one asyncio event loop, so a step of the model is    *)
(* the code between two suspension points (await) of one task.             *)
(*                                                                         *)
(* The specifications share the variables:                                 *)
(*   Spec          a ready session: client messages, provider Transcript   *)
(*                 events, finalize() and the turns they start, with a     *)
(*                 clock;                                                  *)
(*   SpecLink      connection life cycle: setup, connect() with retries,   *)
(*                 Open/Close events, keep-alive, reconnect, audio         *)
(*                 forwarding, teardown;                                   *)
(*   SpecTeardown  the same life cycle while the application shuts down;   *)
(*   SpecSpeak     the chunk buffering of _speak_with_elevenlabs;          *)
(*   SpecHist      the conversation history of a ready session;            *)
(*   SpecLlm       OpenAILLMService (services/openai_service.py) called in *)
(*                 any order;                                              *)
(*   SpecTransport WebSocketTransport (transport.py) and its two loops.    *)
(***************************************************************************)
EXTENDS Integers, Sequences, FiniteSets, TLC

(***************************************************************************)
(* Bounds of the model                                                     *)
(***************************************************************************)
\* ticks the clock may advance after the session became ready
Horizon == 3
\* utterances the client starts
MaxUtt == 2
\* non-empty final events the provider emits per utterance
MaxFinals == 2
\* on_transcript invocations recorded
MaxCalls == MaxFinals + 1
\* binary audio frames the client sends
MaxAudio == 1
\* reconnect tasks _on_close may spawn
MaxReconnects == 2
\* chunks the synthesis response yields
MaxChunks == 3
\* control messages (clear, set_prompt) the client sends
MaxControls == 3
\* entries of the conversation history
MaxHistory == 4
\* binary frames a client sends to a transport, and frames its output queue holds
MaxFrames == 2
\* calls of WebSocketTransport.start() that create tasks
MaxStarts == 2

(***************************************************************************)
(* Program constants.  The clock counts ticks of 1.5 s.                    *)
(***************************************************************************)
\* asyncio.sleep(1.5) in finalize()
FINALIZE_SETTLE == 1
\* current_time - _last_interim_time < 3.0 in finalize()
FALLBACK_MAX_AGE == 2
\* current_time - _last_interim_time > 3.0 in send_audio()
RESET_AFTER == 2
\* DirectDeepgramService.__init__: _last_interim_time = 0
INITIAL_INTERIM_TIME == 0
\* connect(max_retries=3), called by JarvisPipeline.setup
SETUP_RETRIES == 3
\* connect(max_retries=1), spawned by _on_close
RECONNECT_RETRIES == 1
\* CHUNK_SIZE in _speak_with_elevenlabs
CHUNK_SIZE == 8192

\* loop.time() when the session becomes ready (a monotonic clock that has
\* been running for more than 3 s)
StartTime == INITIAL_INTERIM_TIME + RESET_AFTER + 1
MaxTime == StartTime + Horizon

InterimTexts == {"he", "hello"}
FinalTexts == {"hello there"}
Paths == {"final", "fallback"}
Utts == 1..MaxUtt
ConnTasks == 1..(1 + MaxReconnects)
\* prompts a client may set ("" is an empty prompt), and what the language
\* model may answer
Prompts == {"", "pirate"}
Responses == {"", "hi"}
\* sizes, in bytes, of the chunks the synthesis response may yield
ChunkSizes == {0, 1, CHUNK_SIZE - 1, CHUNK_SIZE, CHUNK_SIZE + 1, 2 * CHUNK_SIZE + 1}

VARIABLES
    \* the event loop's clock, loop.time()
    now,
    \* DirectDeepgramService fields (connection: 0 is None)
    is_connected,
    connection,
    last_interim_transcript,
    last_interim_time,
    processed_final_in_session,
    \* the server task of websocket_endpoint: where it is suspended
    srv_pc,
    \* loop time at which the sleep of finalize() ends
    srv_wake,
    \* the provider's event dispatch: "idle", or "cb" while _on_message awaits on_transcript
    msg_pc,
    \* the handle_transcript invocation started by each trigger path
    turn,
    \* audio chunks handed to connection.send, in order
    sent,
    \* history: every on_transcript invocation, in order
    calls,
    \* history: utterance the client is in, binary frames received
    utt,
    audio_in,
    \* history of the current utterance: non-empty finals dispatched, text of the
    \* first, where the server task was when it was dispatched
    finals,
    final_text,
    final_at,
    \* history of the current utterance: user_stopped_speaking messages handled,
    \* text of its most recent interim event, an interim came after a stop
    stops,
    heard,
    heard_late,
    \* history: utterance of the stored interim
    interim_utt,
    \* the provider connection objects created so far: "new", "open" or "closed"
    \* (no event will come from it any more: it was closed, or never started)
    conns,
    \* the connect() invocations: 1 is awaited by setup, the others are reconnects
    ctask,
    \* the keep-alive tasks created so far, and _keep_alive_task (0 is None)
    ka,
    keep_alive_task,
    \* OpenAILLMService._service is set (create_service was called)
    llm_ready,
    \* what the server wrote to the client socket, and the socket: "open", "gone"
    \* (the client went away) or "closed" (by the server)
    out,
    ws,
    \* history: audio frames process_audio dropped because the link was down
    dropped,
    \* _speak_with_elevenlabs: where the call is, its local buffer, the chunks
    \* resp.aiter_bytes() has yielded and the byte strings given to send_bytes
    speak_pc,
    buffer,
    chunks,
    written,
    \* OpenAILLMService._conversation_history, and the last control message the
    \* server handled ("none", "clear", "set_prompt")
    history,
    last_ctl,
    \* history: handle_transcript has caught an exception of the language-model
    \* call or of the synthesis
    caught,
    \* the WebSocketTransport object (a task reference that is 0 is None, _task
    \* is whether a PipelineTask is attached), the tasks its start() created so
    \* far, where the caller of its methods is suspended, and history: the
    \* frames given to PipelineTask.queue_frame
    transport,
    loops,
    call,
    queued,
    \* the connection is registered in active_connections
    active,
    \* history: the number of calls of DirectDeepgramService.disconnect() and
    \* of WebSocketTransport.cleanup() for this connection
    disconnects,
    cleanups

linkVars == <<is_connected, connection, last_interim_transcript, last_interim_time,
              processed_final_in_session>>
srvVars == <<srv_pc, srv_wake>>
turnVars == <<msg_pc, turn, calls>>
histVars == <<utt, audio_in, finals, final_text, final_at, stops, heard, heard_late,
              interim_utt>>
connVars == <<conns, ctask, ka, keep_alive_task, llm_ready, out, ws>>
ws_open == ws = "open"
speakVars == <<speak_pc, buffer, chunks, written>>
convVars == <<history, last_ctl>>
\* the components the session and link life cycles are modelled without
transportVars == <<transport, loops, call, queued>>
endVars == <<active, disconnects, cleanups>>
offSession == <<speakVars, convVars, transportVars, endVars>>
vars == <<now, linkVars, srvVars, turnVars, sent, histVars, connVars, dropped, offSession,
          caught>>

\* WebSocketTransport.__init__
NewTransport ==
    [_running |-> FALSE, _input_queue |-> << >>, _output_queue |-> << >>,
     _input_task |-> 0, _output_task |-> 0, _task |-> FALSE]
\* no method of the transport is in progress
NoCall == [op |-> "none", pc |-> "idle", task |-> 0]
\* the transport as the endpoint creates it; in direct mode nothing starts it
NoTransport ==
    transport = NewTransport /\ loops = << >> /\ call = NoCall /\ queued = << >>

\* no synthesis call is modelled
NoSpeak == speak_pc = "none" /\ buffer = << >> /\ chunks = << >> /\ written = << >>

\* JarvisPipeline._default_system_prompt(), and a prompt a client may set
DefaultPrompt == "jarvis"
SystemMessage(prompt) == [role |-> "system", content |-> prompt]
\* the history after JarvisPipeline.setup: set_system_prompt(self.system_prompt)
NoConversation == history = <<SystemMessage(DefaultPrompt)>> /\ last_ctl = "none"

NoTurn == [pc |-> "none", text |-> "", utt |-> 0]
NoTask == [pc |-> "none", attempt |-> 0, max |-> 0, conn |-> 0, result |-> "none"]
DoneTask(c, r) == [pc |-> "done", attempt |-> 0, max |-> 0, conn |-> c, result |-> r]

\* texts of the on_transcript invocations made for utterance u, in order
RECURSIVE TextsOf(_, _)
TextsOf(cs, u) ==
    IF cs = << >> THEN << >>
    ELSE IF Head(cs).utt = u THEN <<Head(cs).text>> \o TextsOf(Tail(cs), u)
    ELSE TextsOf(Tail(cs), u)
CallsOf(u) == TextsOf(calls, u)

(***************************************************************************)
(* The methods of WebSocketTransport (transport.py), as functions of the   *)
(* object and of the tasks created so far.                                 *)
(***************************************************************************)
\* asyncio.create_task(self._input_task_handler()) and the same for the output
NewLoop(kind) == [kind |-> kind, pc |-> "created", item |-> 0, cancels |-> 0]

\* "while self._running": the loop waits for the next item or the task ends
LoopHead(tr) == IF tr._running THEN "get" ELSE "done"

\* the queue a loop drains
QueueOf(tr, kind) == IF kind = "input" THEN tr._input_queue ELSE tr._output_queue

\* mutant: start() does not set the flag
start_NoFlag(tr, lp) ==
    IF tr._running
    THEN [transport |-> tr, loops |-> lp]
    ELSE [transport |-> [tr EXCEPT !._input_task = Len(lp) + 1,
                                   !._output_task = Len(lp) + 2],
          loops |-> lp \o <<NewLoop("input"), NewLoop("output")>>]

\* start()
start(tr, lp) ==
    IF tr._running
    THEN [transport |-> tr, loops |-> lp]
    ELSE [transport |-> [tr EXCEPT !._running = TRUE,
                                   !._input_task = Len(lp) + 1,
                                   !._output_task = Len(lp) + 2],
          loops |-> lp \o <<NewLoop("input"), NewLoop("output")>>]

\* task.cancel() on a task that is not done
cancel(lp, i) == [lp EXCEPT ![i].cancels = @ + 1]

\* mutant: cleanup() leaves the queues as they are
returns_KeepsQueues(tr, op) == tr

\* stop() returns; in cleanup() the two queues are emptied first
returns(tr, op) ==
    IF op = "cleanup"
    THEN [tr EXCEPT !._input_queue = << >>, !._output_queue = << >>]
    ELSE tr

\* stop() from "if self._output_task:" on: the caller is suspended in
\* "await self._output_task" unless that task is done already
stop_output(tr, lp, op) ==
    IF tr._output_task # 0 /\ lp[tr._output_task].pc # "done"
    THEN [transport |-> tr, loops |-> cancel(lp, tr._output_task),
          call |-> [op |-> op, pc |-> "await_output", task |-> tr._output_task]]
    ELSE [transport |-> returns(tr, op), loops |-> lp, call |-> NoCall]

\* stop() from "if self._input_task:" on
stop_input(tr, lp, op) ==
    IF tr._input_task # 0 /\ lp[tr._input_task].pc # "done"
    THEN [transport |-> tr, loops |-> cancel(lp, tr._input_task),
          call |-> [op |-> op, pc |-> "await_input", task |-> tr._input_task]]
    ELSE stop_output(tr, lp, op)

\* stop(), called by itself (op = "stop") or at the head of cleanup()
stop(tr, lp, op) ==
    IF ~tr._running
    THEN [transport |-> returns(tr, op), loops |-> lp, call |-> NoCall]
    ELSE stop_input([tr EXCEPT !._running = FALSE], lp, op)

\* send_audio(audio_data)
send_audio(tr, lp, audio_data) ==
    LET s == start(tr, lp)
    IN  [transport |-> [s.transport EXCEPT !._input_queue = Append(@, audio_data)],
         loops |-> s.loops]

(***************************************************************************)
(* Specification Spec: a session that is ready (setup succeeded, the link  *)
(* is open, on_transcript is handle_transcript).                           *)
(***************************************************************************)
Init ==
    /\ now = StartTime
    /\ is_connected = TRUE
    /\ connection = 1
    /\ last_interim_transcript = ""
    /\ last_interim_time = INITIAL_INTERIM_TIME
    /\ processed_final_in_session = FALSE
    /\ srv_pc = "recv"
    /\ srv_wake = 0
    /\ msg_pc = "idle"
    /\ turn = [p \in Paths |-> NoTurn]
    /\ sent = << >>
    /\ calls = << >>
    /\ utt = 0
    /\ audio_in = 0
    /\ finals = 0
    /\ final_text = ""
    /\ final_at = "none"
    /\ stops = 0
    /\ heard = ""
    /\ heard_late = FALSE
    /\ interim_utt = 0
    /\ conns = <<"open">>
    /\ ctask = [t \in ConnTasks |-> IF t = 1 THEN DoneTask(1, "true") ELSE NoTask]
    /\ ka = <<"sleeping">>
    /\ keep_alive_task = 1
    /\ llm_ready = TRUE
    /\ out = <<"ready">>
    /\ ws = "open"
    /\ dropped = 0
    /\ caught = FALSE
    /\ NoTransport
    /\ active = TRUE
    /\ disconnects = 0
    /\ cleanups = 0
    /\ NoSpeak
    /\ NoConversation

\* handle_transcript(text) up to its first suspension: generate_response has
\* been entered and the language-model request is awaited
HandleTranscriptStart(p, text, u) ==
    /\ turn' = [turn EXCEPT ![p] = [pc |-> "llm", text |-> text, utt |-> u]]
    /\ calls' = Append(calls, [text |-> text, via |-> p, utt |-> u])
    /\ caught' = FALSE

\* mutant: what handle_transcript did not catch ends the server loop
CallbackReturned_Propagates(p) ==
    /\ last_interim_transcript' = ""
    /\ processed_final_in_session' = TRUE
    /\ UNCHANGED <<is_connected, connection, last_interim_time>>
    /\ IF p = "final"
       THEN msg_pc' = "idle" /\ srv_pc' = "teardown" /\ UNCHANGED srv_wake
       ELSE srv_pc' = "teardown" /\ UNCHANGED <<srv_wake, msg_pc>>

\* mutant: the stored interim survives the callback
CallbackReturned_KeepsInterim(p) ==
    /\ processed_final_in_session' = TRUE
    /\ UNCHANGED <<is_connected, connection, last_interim_transcript, last_interim_time>>
    /\ IF p = "final"
       THEN msg_pc' = "idle" /\ UNCHANGED srvVars
       ELSE srv_pc' = "recv" /\ UNCHANGED <<srv_wake, msg_pc>>

\* the statements after "await self.on_transcript(...)": _on_message for the
\* final path, finalize() for the fallback path
CallbackReturned(p) ==
    /\ last_interim_transcript' = ""
    /\ processed_final_in_session' = TRUE
    /\ UNCHANGED <<is_connected, connection, last_interim_time>>
    /\ IF p = "final"
       THEN msg_pc' = "idle" /\ UNCHANGED srvVars
       ELSE srv_pc' = "recv" /\ UNCHANGED <<srv_wake, msg_pc>>

\* the clock advances; a sleep that is due wakes before time moves on
Tick ==
    /\ now < MaxTime
    /\ ~(srv_pc = "fin_sleep" /\ now >= srv_wake)
    /\ now' = now + 1
    /\ UNCHANGED <<connVars, dropped, offSession, caught, linkVars, srvVars, turnVars, sent, histVars>>

\* mutant: the new utterance cancels the turns in flight
ClientStartsSpeaking_Interrupts ==
    /\ srv_pc = "recv"
    /\ ws_open
    /\ utt < MaxUtt
    /\ utt' = utt + 1
    /\ finals' = 0
    /\ final_text' = ""
    /\ final_at' = "none"
    /\ stops' = 0
    /\ heard' = ""
    /\ heard_late' = FALSE
    /\ turn' = [p \in Paths |-> NoTurn]
    /\ UNCHANGED <<connVars, dropped, offSession, caught, now, linkVars, srvVars, msg_pc,
                   calls, sent, audio_in, interim_utt>>

\* {"type": "user_started_speaking"}: transport.user_started_speaking() returns
\* at once, the transport has no PipelineTask in direct mode
ClientStartsSpeaking ==
    /\ srv_pc = "recv"
    /\ ws_open
    /\ utt < MaxUtt
    /\ utt' = utt + 1
    /\ finals' = 0
    /\ final_text' = ""
    /\ final_at' = "none"
    /\ stops' = 0
    /\ heard' = ""
    /\ heard_late' = FALSE
    /\ UNCHANGED <<connVars, dropped, offSession, caught, now, linkVars, srvVars, turnVars, sent, audio_in, interim_utt>>

\* send_audio's reset of the resolved flag
ResetCondition == now - last_interim_time > RESET_AFTER

\* DirectDeepgramService.send_audio(chunk): the chunk is given to
\* connection.send (an exception of which is logged and changes nothing)
SendAudio(chunk) ==
    IF is_connected /\ connection # 0
    THEN /\ processed_final_in_session' =
               IF ResetCondition THEN FALSE ELSE processed_final_in_session
         /\ sent' = Append(sent, chunk)
         /\ UNCHANGED <<is_connected, connection, last_interim_transcript,
                        last_interim_time>>
    ELSE UNCHANGED <<linkVars, sent>>

\* mutant: the frame is forwarded whatever the state of the link
ProcessAudio_NoGuard ==
    /\ srv_pc = "recv"
    /\ ws_open
    /\ audio_in < MaxAudio
    /\ audio_in' = audio_in + 1
    /\ sent' = Append(sent, audio_in + 1)
    /\ dropped' = IF ~is_connected THEN dropped + 1 ELSE dropped
    /\ UNCHANGED <<now, linkVars, srvVars, turnVars, utt, finals, final_text, final_at,
                   stops, heard, heard_late, interim_utt, connVars, offSession, caught>>

\* a binary frame: JarvisPipeline.process_audio(audio_data)
ProcessAudio ==
    /\ srv_pc = "recv"
    /\ ws_open
    /\ audio_in < MaxAudio
    /\ audio_in' = audio_in + 1
    /\ IF ~is_connected
       THEN UNCHANGED <<linkVars, sent>> /\ dropped' = dropped + 1
       ELSE SendAudio(audio_in + 1) /\ UNCHANGED dropped
    /\ UNCHANGED <<now, srvVars, turnVars, utt, finals, final_text, final_at,
                   stops, heard, heard_late, interim_utt, connVars, offSession, caught>>

\* {"type": "user_stopped_speaking"}: finalize_speech() and finalize() up to the
\* settle sleep; ok: the provider's finalize call did not raise
ClientStopsSpeaking(ok) ==
    /\ srv_pc = "recv"
    /\ ws_open
    /\ utt >= 1
    /\ stops' = IF stops < 2 THEN stops + 1 ELSE stops
    /\ IF is_connected /\ connection # 0 /\ ok
       THEN srv_pc' = "fin_sleep" /\ srv_wake' = now + FINALIZE_SETTLE
       ELSE UNCHANGED srvVars
    /\ UNCHANGED <<connVars, dropped, offSession, caught, now, linkVars, turnVars, sent, utt, audio_in, finals,
                   final_text, final_at, heard, heard_late, interim_utt>>

\* the stored interim is recent
InterimFresh == now - last_interim_time < FALLBACK_MAX_AGE

\* finalize()'s condition for using the last interim
FallbackCondition ==
    /\ last_interim_transcript # ""
    /\ InterimFresh
    /\ ~processed_final_in_session

\* finalize() after the settle sleep: the interim fallback
FallbackCheck ==
    /\ srv_pc = "fin_sleep"
    /\ now >= srv_wake
    /\ IF FallbackCondition
       THEN /\ Len(calls) < MaxCalls
            /\ HandleTranscriptStart("fallback", last_interim_transcript, interim_utt)
            /\ srv_pc' = "fin_cb"
       ELSE /\ srv_pc' = "recv"
            /\ UNCHANGED <<turn, calls, caught>>
    /\ srv_wake' = 0
    /\ UNCHANGED <<connVars, dropped, offSession, now, linkVars, msg_pc, sent, histVars>>

\* the payloads of a Transcript event: result and channel are present or not,
\* alternatives is the list of the transcripts of the alternatives, is_final
\* is "true", "false" or "absent"
PayloadsWith(texts, finality) ==
    {[result |-> TRUE, channel |-> TRUE, alternatives |-> <<t>>, is_final |-> finality] :
        t \in texts}
Malformed ==
    {[result |-> FALSE, channel |-> FALSE, alternatives |-> << >>, is_final |-> "absent"],
     [result |-> TRUE, channel |-> FALSE, alternatives |-> << >>, is_final |-> "true"],
     [result |-> TRUE, channel |-> TRUE, alternatives |-> << >>, is_final |-> "false"]}
Payloads ==
    PayloadsWith(InterimTexts \cup {""}, "false")
        \cup PayloadsWith({"he"}, "absent")
        \cup PayloadsWith(FinalTexts \cup {""}, "true")
        \cup Malformed

\* _on_message up to "if transcript:": the transcript of the first alternative,
\* or "" when the handler returns before it reads one
TranscriptOf(payload) ==
    IF ~payload.result THEN ""
    ELSE IF ~payload.channel THEN ""
    ELSE IF Len(payload.alternatives) = 0 THEN ""
    ELSE payload.alternatives[1]

\* result.is_final if hasattr(result, 'is_final') else False
FinalOf(payload) == payload.is_final = "true"

\* mutant: an interim event is stored whatever its text
StoresInterim_AnyText(text, is_final) == ~is_final

\* _on_message stores the transcript as the last interim
StoresInterim(text, is_final) == text # "" /\ ~is_final

\* mutant: an interim transcript invokes on_transcript too
InvokesCallback_Interim(text, is_final) == text # ""

\* _on_message invokes on_transcript
InvokesCallback(text, is_final) == text # "" /\ is_final

\* _on_message(result) up to its await of on_transcript: the fields of the
\* service as the handler leaves them, and whether on_transcript is invoked
on_message(text, is_final) ==
    [_last_interim_transcript |->
        IF StoresInterim(text, is_final) THEN text ELSE last_interim_transcript,
     _last_interim_time |->
        IF StoresInterim(text, is_final) THEN now ELSE last_interim_time,
     _processed_final_in_session |-> processed_final_in_session,
     on_transcript |-> InvokesCallback(text, is_final)]

\* a Transcript event of the provider for the current utterance
OnMessage(text, is_final) ==
    /\ msg_pc = "idle"
    /\ utt >= 1
    /\ (text # "" /\ ~is_final) => finals = 0
    /\ (text # "" /\ is_final) => finals < MaxFinals
    /\ last_interim_transcript' = on_message(text, is_final)._last_interim_transcript
    /\ last_interim_time' = on_message(text, is_final)._last_interim_time
    /\ processed_final_in_session' = on_message(text, is_final)._processed_final_in_session
    /\ interim_utt' = IF StoresInterim(text, is_final) THEN utt ELSE interim_utt
    /\ IF on_message(text, is_final).on_transcript
       THEN /\ Len(calls) < MaxCalls
            /\ HandleTranscriptStart("final", text, utt)
            /\ msg_pc' = "cb"
       ELSE UNCHANGED <<turnVars, caught>>
    /\ heard' = IF text # "" /\ ~is_final THEN text ELSE heard
    /\ heard_late' = (heard_late \/ (text # "" /\ ~is_final /\ stops > 0))
    /\ finals' = IF text # "" /\ is_final THEN finals + 1 ELSE finals
    /\ final_text' = IF text # "" /\ is_final /\ finals = 0 THEN text ELSE final_text
    /\ final_at' = IF text # "" /\ is_final /\ finals = 0 THEN srv_pc ELSE final_at
    /\ UNCHANGED <<connVars, dropped, offSession, now, is_connected, connection,
                   srvVars, sent, utt, audio_in, stops>>

\* generate_response returns a non-empty text: _speak_with_elevenlabs starts
LlmResponds(p) ==
    /\ turn[p].pc = "llm"
    /\ turn' = [turn EXCEPT ![p].pc = "tts"]
    /\ UNCHANGED <<connVars, dropped, offSession, caught, now, linkVars, srvVars, msg_pc, calls, sent, histVars>>

\* generate_response returns "" or raises (an exception that handle_transcript
\* catches and logs): handle_transcript returns
LlmEmptyOrFails(p, raises) ==
    /\ turn[p].pc = "llm"
    /\ turn' = [turn EXCEPT ![p] = NoTurn]
    /\ caught' = (caught \/ raises)
    /\ CallbackReturned(p)
    /\ UNCHANGED <<connVars, dropped, offSession, now, calls, sent, histVars>>

\* _speak_with_elevenlabs returns or raises (an exception that handle_transcript
\* catches and logs): handle_transcript returns
SpeakEnds(p, raises) ==
    /\ turn[p].pc = "tts"
    /\ turn' = [turn EXCEPT ![p] = NoTurn]
    /\ caught' = (caught \/ raises)
    /\ CallbackReturned(p)
    /\ UNCHANGED <<connVars, dropped, offSession, now, calls, sent, histVars>>

Next ==
    \/ Tick
    \/ ClientStartsSpeaking
    \/ ProcessAudio
    \/ \E ok \in BOOLEAN : ClientStopsSpeaking(ok)
    \/ FallbackCheck
    \/ \E payload \in Payloads : OnMessage(TranscriptOf(payload), FinalOf(payload))
    \/ \E p \in Paths : LlmResponds(p)
    \/ \E p \in Paths, raises \in BOOLEAN : LlmEmptyOrFails(p, raises)
    \/ \E p \in Paths, raises \in BOOLEAN : SpeakEnds(p, raises)

Spec == Init /\ [][Next]_vars


(***************************************************************************)
(* Specification SpecLink: the life cycle of one connection, from the call *)
(* of JarvisPipeline.setup to the end of the teardown.  Sleeps are not     *)
(* timed here: a sleeping task may wake at any later step.                 *)
(***************************************************************************)
\* what the link life cycle leaves alone
turnState0 == <<now, last_interim_transcript, last_interim_time, srv_wake, msg_pc,
                turn, calls, utt, finals, final_text, final_at, stops, heard,
                heard_late, interim_utt, speakVars, convVars, loops, call, queued, caught>>
turnState == <<turnState0, transport, endVars>>

InitLink ==
    /\ now = StartTime
    /\ is_connected = FALSE
    /\ connection = 0
    /\ last_interim_transcript = ""
    /\ last_interim_time = INITIAL_INTERIM_TIME
    /\ processed_final_in_session = FALSE
    /\ srv_pc = "setup"
    /\ srv_wake = 0
    /\ msg_pc = "idle"
    /\ turn = [p \in Paths |-> NoTurn]
    /\ sent = << >>
    /\ calls = << >>
    /\ utt = 0
    /\ audio_in = 0
    /\ finals = 0
    /\ final_text = ""
    /\ final_at = "none"
    /\ stops = 0
    /\ heard = ""
    /\ heard_late = FALSE
    /\ interim_utt = 0
    /\ conns = << >>
    /\ ctask = [t \in ConnTasks |->
                  IF t = 1
                  THEN [pc |-> "begin", attempt |-> 0, max |-> SETUP_RETRIES,
                        conn |-> 0, result |-> "none"]
                  ELSE NoTask]
    /\ ka = << >>
    /\ keep_alive_task = 0
    /\ llm_ready = FALSE
    /\ out = << >>
    /\ ws = "open"
    /\ dropped = 0
    /\ caught = FALSE
    /\ NoTransport
    /\ active = TRUE
    /\ disconnects = 0
    /\ cleanups = 0
    /\ NoSpeak
    /\ history = << >>
    /\ last_ctl = "none"

\* JarvisPipeline.is_ready in direct mode
IsReady == llm_ready

\* mutant: setup ignores the result of connect()
SetupContinues_IgnoresResult(result) ==
    /\ llm_ready' = TRUE
    /\ IF ws_open
       THEN out' = Append(out, "ready") /\ srv_pc' = "recv"
       ELSE UNCHANGED out /\ srv_pc' = "teardown"

\* what the server task does when the connect() it awaits returns: setup
\* completes and ready is sent, or setup raises and the handler sends the
\* error message (best effort: a send on a socket that is gone raises)
SetupContinues(result) ==
    IF result = "true"
    THEN /\ llm_ready' = TRUE
         /\ IF ws_open
            THEN out' = Append(out, "ready") /\ srv_pc' = "recv"
            ELSE UNCHANGED out /\ srv_pc' = "teardown"
    ELSE /\ UNCHANGED llm_ready
         /\ IF ws_open
            THEN out' = Append(out, "error") /\ srv_pc' = "err_close"
            ELSE UNCHANGED out /\ srv_pc' = "teardown"

\* connect() returns: the task that awaits it goes on (only setup awaits one)
ConnectReturns(t, result) ==
    IF t = 1 /\ srv_pc = "setup"
    THEN SetupContinues(result)
    ELSE UNCHANGED <<llm_ready, out, srv_pc>>

\* mutant: one retry more than max_retries allows
AfterFailedAttempt_OneMore(t) ==
    IF ctask[t].attempt < ctask[t].max
    THEN [ctask[t] EXCEPT !.pc = "backoff"]
    ELSE [ctask[t] EXCEPT !.pc = "done", !.result = "false"]

\* connect(): after a failed attempt, the 1 s sleep before the next one, or
\* "return False" when it was the last
AfterFailedAttempt(t) ==
    IF ctask[t].attempt < ctask[t].max - 1
    THEN [ctask[t] EXCEPT !.pc = "backoff"]
    ELSE [ctask[t] EXCEPT !.pc = "done", !.result = "false"]

\* connect() starts running: its first iteration up to "await
\* self.connection.start(options)": a new connection object replaces
\* self.connection and gets the handlers
ConnectAttempt(t) ==
    /\ ctask[t].pc = "begin"
    /\ conns' = Append(conns, "new")
    /\ connection' = Len(conns) + 1
    /\ ctask' = [ctask EXCEPT ![t].pc = "start", ![t].conn = Len(conns) + 1]
    /\ UNCHANGED <<is_connected, processed_final_in_session, srv_pc, sent, audio_in,
                   ka, keep_alive_task, llm_ready, out, ws, dropped, turnState>>

\* connection.start(options) returns True ("true"), returns False or raises
StartReturns(t, r) ==
    /\ ctask[t].pc = "start"
    /\ r # "true" => conns[ctask[t].conn] = "new"
    /\ IF r = "true"
       THEN /\ ctask' = [ctask EXCEPT ![t].pc = "settle"]
            /\ UNCHANGED <<conns, llm_ready, out, srv_pc>>
       ELSE /\ ctask' = [ctask EXCEPT ![t] = AfterFailedAttempt(t)]
            /\ conns' = [conns EXCEPT ![ctask[t].conn] = "closed"]
            /\ IF AfterFailedAttempt(t).pc = "done"
               THEN ConnectReturns(t, "false")
               ELSE UNCHANGED <<llm_ready, out, srv_pc>>
    /\ UNCHANGED <<is_connected, connection, processed_final_in_session, sent,
                   audio_in, ka, keep_alive_task, ws, dropped, turnState>>

\* _start_keep_alive(): the previous task is cancelled, a new one is created
\* ("sleeping": its next step is a test of self.is_connected)
StartKeepAlive ==
    /\ ka' = Append(IF keep_alive_task # 0
                    THEN [ka EXCEPT ![keep_alive_task] = "done"]
                    ELSE ka, "sleeping")
    /\ keep_alive_task' = Len(ka) + 1

\* connect() after the 0.5 s settle sleep: is the Open event confirmed?
SettleDone(t) ==
    /\ ctask[t].pc = "settle"
    /\ IF is_connected
       THEN /\ StartKeepAlive
            /\ ctask' = [ctask EXCEPT ![t].pc = "done", ![t].result = "true"]
            /\ ConnectReturns(t, "true")
       ELSE /\ ctask' = [ctask EXCEPT ![t] = AfterFailedAttempt(t)]
            /\ UNCHANGED <<ka, keep_alive_task>>
            /\ IF AfterFailedAttempt(t).pc = "done"
               THEN ConnectReturns(t, "false")
               ELSE UNCHANGED <<llm_ready, out, srv_pc>>
    /\ UNCHANGED <<is_connected, connection, processed_final_in_session, sent,
                   audio_in, conns, ws, dropped, turnState>>

\* connect(): the sleep before a retry is over, and the next iteration runs up
\* to "await self.connection.start(options)"
BackoffDone(t) ==
    /\ ctask[t].pc = "backoff"
    /\ conns' = Append(conns, "new")
    /\ connection' = Len(conns) + 1
    /\ ctask' = [ctask EXCEPT ![t].pc = "start", ![t].attempt = @ + 1,
                              ![t].conn = Len(conns) + 1]
    /\ UNCHANGED <<is_connected, processed_final_in_session, srv_pc, sent, audio_in,
                   ka, keep_alive_task, llm_ready, out, ws, dropped, turnState>>

\* the provider's Open event on connection c: _on_open
OnOpen(c) ==
    /\ conns[c] = "new"
    /\ conns' = [conns EXCEPT ![c] = "open"]
    /\ is_connected' = TRUE
    /\ UNCHANGED <<connection, processed_final_in_session, srv_pc, sent, audio_in,
                   ctask, ka, keep_alive_task, llm_ready, out, ws, dropped,
                   turnState>>

\* _on_close's condition for a reconnect
ReconnectCondition == keep_alive_task # 0 /\ ka[keep_alive_task] # "done"

FreeTasks == {t \in ConnTasks : ctask[t].pc = "none"}

\* the provider's Close event on an open connection c: _on_close
OnClose(c) ==
    /\ conns[c] = "open"
    /\ conns' = [conns EXCEPT ![c] = "closed"]
    /\ is_connected' = FALSE
    /\ IF ReconnectCondition
       THEN /\ FreeTasks # {}
            /\ LET t == CHOOSE x \in FreeTasks : \A y \in FreeTasks : x <= y
               IN ctask' = [ctask EXCEPT ![t] =
                               [pc |-> "begin", attempt |-> 0, max |-> RECONNECT_RETRIES,
                                conn |-> 0, result |-> "none"]]
       ELSE UNCHANGED ctask
    /\ UNCHANGED <<connection, processed_final_in_session, srv_pc, sent, audio_in, ka,
                   keep_alive_task, llm_ready, out, ws, dropped, turnState>>

\* _keep_alive_loop at its first test of "while self.is_connected" or after
\* its 8 s sleep: a keep-alive is sent if the link is connected, and the loop
\* ends if it is not
KeepAliveWake(k) ==
    /\ ka[k] = "sleeping"
    /\ ka' = [ka EXCEPT ![k] = IF is_connected THEN "sleeping" ELSE "done"]
    /\ UNCHANGED <<is_connected, connection, processed_final_in_session, srv_pc, sent,
                   audio_in, conns, ctask, keep_alive_task, llm_ready, out, ws,
                   dropped, turnState>>

\* except Exception: websocket.close(code=WS_1011_INTERNAL_ERROR), best effort
ErrClose ==
    /\ srv_pc = "err_close"
    /\ srv_pc' = "teardown"
    /\ IF ws_open
       THEN out' = Append(out, "close1011") /\ ws' = "closed"
       ELSE UNCHANGED <<out, ws>>
    /\ UNCHANGED <<is_connected, connection, processed_final_in_session, sent, audio_in,
                   conns, ctask, ka, keep_alive_task, llm_ready, dropped, turnState>>

\* the client goes away
ClientDisconnect ==
    /\ ws_open
    /\ srv_pc # "done"
    /\ ws' = "gone"
    /\ UNCHANGED <<is_connected, connection, processed_final_in_session, srv_pc, sent,
                   audio_in, conns, ctask, ka, keep_alive_task, llm_ready, out, dropped,
                   turnState>>

\* the message loop ends on the disconnect
LoopEnds ==
    /\ srv_pc = "recv"
    /\ ~ws_open
    /\ srv_pc' = "teardown"
    /\ UNCHANGED <<is_connected, connection, processed_final_in_session, sent, audio_in,
                   conns, ctask, ka, keep_alive_task, llm_ready, out, ws, dropped,
                   turnState>>

\* finally: pipeline.stop(), that is DirectDeepgramService.disconnect(), then
\* transport.cleanup() and the removal from active_connections; ok:
\* connection.finish() did not raise
PipelineStop(ok) ==
    /\ srv_pc = "teardown"
    /\ srv_pc' = "done"
    /\ disconnects' = disconnects + 1
    /\ ka' = IF keep_alive_task # 0 THEN [ka EXCEPT ![keep_alive_task] = "done"] ELSE ka
    /\ IF connection # 0 /\ ok
       THEN /\ is_connected' = FALSE
            /\ conns' = [conns EXCEPT ![connection] =
                            IF @ \in {"new", "open"} THEN "closed" ELSE @]
       ELSE UNCHANGED <<is_connected, conns>>
    /\ transport' = stop(transport, loops, "cleanup").transport
    /\ cleanups' = cleanups + 1
    /\ active' = FALSE
    /\ UNCHANGED <<connection, processed_final_in_session, sent, audio_in, ctask,
                   keep_alive_task, llm_ready, out, ws, dropped, turnState0>>

\* mutant: the shutdown of the application also stops the pipeline's link
LifespanShutdown_Disconnects ==
    /\ active
    /\ transport' = stop(transport, loops, "cleanup").transport
    /\ cleanups' = cleanups + 1
    /\ disconnects' = disconnects + 1
    /\ active' = FALSE
    /\ UNCHANGED <<is_connected, connection, processed_final_in_session, srv_pc, sent,
                   audio_in, conns, ctask, ka, keep_alive_task, llm_ready, out, ws,
                   dropped, turnState0>>

\* lifespan after the yield: transport.cleanup() for every entry of
\* active_connections, then active_connections.clear()
LifespanShutdown ==
    /\ active
    /\ transport' = stop(transport, loops, "cleanup").transport
    /\ cleanups' = cleanups + 1
    /\ active' = FALSE
    /\ UNCHANGED <<is_connected, connection, processed_final_in_session, srv_pc, sent,
                   audio_in, conns, ctask, ka, keep_alive_task, llm_ready, out, ws,
                   dropped, disconnects, turnState0>>

\* the steps of the connection's life cycle
NextLifeCycle ==
    \/ \E t \in ConnTasks : ConnectAttempt(t)
    \/ \E t \in ConnTasks, r \in {"true", "false", "raise"} : StartReturns(t, r)
    \/ \E t \in ConnTasks : SettleDone(t)
    \/ \E t \in ConnTasks : BackoffDone(t)
    \/ \E c \in DOMAIN conns : OnOpen(c)
    \/ \E c \in DOMAIN conns : OnClose(c)
    \/ \E k \in DOMAIN ka : KeepAliveWake(k)
    \/ ErrClose
    \/ ClientDisconnect
    \/ LoopEnds
    \/ \E ok \in BOOLEAN : PipelineStop(ok)

NextLink ==
    \/ NextLifeCycle
    \/ ProcessAudio

SpecLink == InitLink /\ [][NextLink]_vars

\* Specification SpecTeardown: the life cycle of the connection while the
\* application may shut down
NextTeardown ==
    \/ NextLifeCycle
    \/ LifespanShutdown

SpecTeardown == InitLink /\ [][NextTeardown]_vars

(***************************************************************************)
(* Specification SpecSpeak: one call of _speak_with_elevenlabs.  A byte    *)
(* string is a sequence of runs [lo, n]: the n bytes of the response body  *)
(* from position lo on, so that two byte strings are equal exactly when    *)
(* their normal forms are.                                                 *)
(***************************************************************************)
\* len(b)
RECURSIVE BLen(_)
BLen(b) == IF b = << >> THEN 0 ELSE Head(b).n + BLen(Tail(b))

\* b[:k]
RECURSIVE Take(_, _)
Take(b, k) ==
    IF b = << >> \/ k = 0 THEN << >>
    ELSE IF Head(b).n <= k THEN <<Head(b)>> \o Take(Tail(b), k - Head(b).n)
    ELSE <<[lo |-> Head(b).lo, n |-> k]>>

\* b[k:]
RECURSIVE Drop(_, _)
Drop(b, k) ==
    IF b = << >> THEN << >>
    ELSE IF k = 0 THEN b
    ELSE IF Head(b).n <= k THEN Drop(Tail(b), k - Head(b).n)
    ELSE <<[lo |-> Head(b).lo + k, n |-> Head(b).n - k]>> \o Tail(b)

\* the byte string itself: adjacent runs that continue each other are one run
RECURSIVE Norm(_)
Norm(b) ==
    IF Len(b) <= 1 THEN b
    ELSE LET r == Norm(Tail(b))
         IN IF Head(b).lo + Head(b).n = Head(r).lo
            THEN <<[lo |-> Head(b).lo, n |-> Head(b).n + Head(r).n]>> \o Tail(r)
            ELSE <<Head(b)>> \o r

\* concatenation of a sequence of byte strings
RECURSIVE Flat(_)
Flat(bs) == IF bs = << >> THEN << >> ELSE Head(bs) \o Flat(Tail(bs))

\* the next n bytes of the response body
BodyChunk(n) == IF n = 0 THEN << >> ELSE <<[lo |-> BLen(Flat(chunks)), n |-> n]>>

InitSpeak ==
    /\ now = StartTime
    /\ is_connected = TRUE
    /\ connection = 1
    /\ last_interim_transcript = ""
    /\ last_interim_time = INITIAL_INTERIM_TIME
    /\ processed_final_in_session = FALSE
    /\ srv_pc = "recv"
    /\ srv_wake = 0
    /\ msg_pc = "idle"
    /\ turn = [p \in Paths |-> NoTurn]
    /\ sent = << >>
    /\ calls = << >>
    /\ utt = 0
    /\ audio_in = 0
    /\ finals = 0
    /\ final_text = ""
    /\ final_at = "none"
    /\ stops = 0
    /\ heard = ""
    /\ heard_late = FALSE
    /\ interim_utt = 0
    /\ conns = <<"open">>
    /\ ctask = [t \in ConnTasks |-> IF t = 1 THEN DoneTask(1, "true") ELSE NoTask]
    /\ ka = <<"sleeping">>
    /\ keep_alive_task = 1
    /\ llm_ready = TRUE
    /\ out = <<"ready">>
    /\ ws = "open"
    /\ dropped = 0
    /\ caught = FALSE
    /\ NoTransport
    /\ active = TRUE
    /\ disconnects = 0
    /\ cleanups = 0
    /\ speak_pc = "begin"
    /\ buffer = << >>
    /\ chunks = << >>
    /\ written = << >>
    /\ NoConversation

\* what a synthesis call leaves alone
speakRest == <<now, linkVars, srvVars, turnVars, sent, histVars, connVars, dropped, convVars,
               caught, transportVars, endVars>>

\* up to the loop: r is "nokey" (ELEVENLABS_API_KEY is empty, the call
\* returns), "raise" (the request or raise_for_status raises) or "stream"
SpeakBegins(r) ==
    /\ speak_pc = "begin"
    /\ speak_pc' = CASE r = "nokey" -> "done"
                     [] r = "raise" -> "failed"
                     [] OTHER -> "stream"
    /\ UNCHANGED <<buffer, chunks, written, speakRest>>

\* the response yields a chunk of n bytes: an empty one is skipped, any other
\* is appended to the buffer
StreamChunk(n) ==
    /\ speak_pc = "stream"
    /\ Len(chunks) < MaxChunks
    /\ chunks' = Append(chunks, BodyChunk(n))
    /\ buffer' = IF n = 0 THEN buffer ELSE buffer \o BodyChunk(n)
    /\ speak_pc' = IF BLen(buffer') >= CHUNK_SIZE THEN "drain" ELSE "stream"
    /\ UNCHANGED <<written, speakRest>>

\* mutant: the slice kept in the buffer starts one byte too far
SendBuffered_SkipsByte(ok) ==
    /\ speak_pc = "drain"
    /\ buffer' = Drop(buffer, CHUNK_SIZE + 1)
    /\ written' = IF ok THEN Append(written, Take(buffer, CHUNK_SIZE)) ELSE written
    /\ speak_pc' = IF ~ok THEN "failed"
                   ELSE IF BLen(buffer') >= CHUNK_SIZE THEN "drain" ELSE "stream"
    /\ UNCHANGED <<chunks, speakRest>>

\* one turn of "while len(buffer) >= CHUNK_SIZE"; ok: send_bytes did not raise
SendBuffered(ok) ==
    /\ speak_pc = "drain"
    /\ buffer' = Drop(buffer, CHUNK_SIZE)
    /\ written' = IF ok THEN Append(written, Take(buffer, CHUNK_SIZE)) ELSE written
    /\ speak_pc' = IF ~ok THEN "failed"
                   ELSE IF BLen(buffer') >= CHUNK_SIZE THEN "drain" ELSE "stream"
    /\ UNCHANGED <<chunks, speakRest>>

\* mutant: the buffer is sent at the end of the stream even when it is empty
StreamEnds_AlwaysFlushes(ok) ==
    /\ speak_pc = "stream"
    /\ written' = IF ok THEN Append(written, buffer) ELSE written
    /\ speak_pc' = IF ok THEN "done" ELSE "failed"
    /\ UNCHANGED <<buffer, chunks, speakRest>>

\* the response is exhausted: what is left in the buffer is sent; ok: send_bytes
\* did not raise
StreamEnds(ok) ==
    /\ speak_pc = "stream"
    /\ IF buffer # << >>
       THEN /\ written' = IF ok THEN Append(written, buffer) ELSE written
            /\ speak_pc' = IF ok THEN "done" ELSE "failed"
       ELSE /\ UNCHANGED written
            /\ speak_pc' = "done"
    /\ UNCHANGED <<buffer, chunks, speakRest>>

\* aiter_bytes() raises while the body is read
StreamRaises ==
    /\ speak_pc = "stream"
    /\ speak_pc' = "failed"
    /\ UNCHANGED <<buffer, chunks, written, speakRest>>

NextSpeak ==
    \/ \E r \in {"nokey", "raise", "stream"} : SpeakBegins(r)
    \/ \E n \in ChunkSizes : StreamChunk(n)
    \/ \E ok \in BOOLEAN : SendBuffered(ok)
    \/ \E ok \in BOOLEAN : StreamEnds(ok)
    \/ StreamRaises

SpecSpeak == InitSpeak /\ [][NextSpeak]_vars

(***************************************************************************)
(* The conversation history.  Specification SpecHist: a ready session      *)
(* whose client sends clear and set_prompt while turns run.  Specification *)
(* SpecLlm: OpenAILLMService called in any order.                          *)
(***************************************************************************)
\* mutant: the system message is put in front of the history
set_system_prompt_Prepends(system_prompt) == <<SystemMessage(system_prompt)>> \o history

\* mutant: only the system message is replaced
set_system_prompt_KeepsRest(system_prompt) ==
    <<SystemMessage(system_prompt)>> \o (IF history = << >> THEN << >> ELSE Tail(history))

\* OpenAILLMService.set_system_prompt(system_prompt): the new history
set_system_prompt(system_prompt) == <<SystemMessage(system_prompt)>>

\* OpenAILLMService.add_user_message / add_assistant_message
add_user_message(h, message) == Append(h, [role |-> "user", content |-> message])
add_assistant_message(h, message) == Append(h, [role |-> "assistant", content |-> message])

\* next(msg for msg in h if msg["role"] == "system"), << >> for None
RECURSIVE FirstSystem(_)
FirstSystem(h) ==
    IF h = << >> THEN << >>
    ELSE IF Head(h).role = "system" THEN <<Head(h)>>
    ELSE FirstSystem(Tail(h))

\* OpenAILLMService.clear_history(keep_system_prompt): the new history
clear_history(h, keep_system_prompt) ==
    IF keep_system_prompt /\ h # << >> THEN FirstSystem(h) ELSE << >>

InitHist ==
    /\ now = StartTime
    /\ is_connected = TRUE
    /\ connection = 1
    /\ last_interim_transcript = ""
    /\ last_interim_time = INITIAL_INTERIM_TIME
    /\ processed_final_in_session = FALSE
    /\ srv_pc = "recv"
    /\ srv_wake = 0
    /\ msg_pc = "idle"
    /\ turn = [p \in Paths |-> NoTurn]
    /\ sent = << >>
    /\ calls = << >>
    /\ utt = 0
    /\ audio_in = 0
    /\ finals = 0
    /\ final_text = ""
    /\ final_at = "none"
    /\ stops = 0
    /\ heard = ""
    /\ heard_late = FALSE
    /\ interim_utt = 0
    /\ conns = <<"open">>
    /\ ctask = [t \in ConnTasks |-> IF t = 1 THEN DoneTask(1, "true") ELSE NoTask]
    /\ ka = <<"sleeping">>
    /\ keep_alive_task = 1
    /\ llm_ready = TRUE
    /\ out = <<"ready">>
    /\ ws = "open"
    /\ dropped = 0
    /\ caught = FALSE
    /\ NoTransport
    /\ active = TRUE
    /\ disconnects = 0
    /\ cleanups = 0
    /\ NoSpeak
    /\ NoConversation

\* what the conversation leaves alone
histRest == <<now, linkVars, srvVars, msg_pc, sent, histVars, dropped, speakVars,
              conns, ctask, ka, keep_alive_task, llm_ready, ws, caught, transportVars,
              endVars>>

\* the message loop is at receive(): it is not inside finalize()'s callback
Receiving == srv_pc = "recv" /\ turn["fallback"] = NoTurn

\* {"type": "clear"}: pipeline.clear_conversation() and the reply
CtlClear ==
    /\ Receiving
    /\ Len(out) <= MaxControls
    /\ history' = clear_history(history, TRUE)
    /\ out' = Append(out, "cleared")
    /\ last_ctl' = "clear"
    /\ UNCHANGED <<turn, calls, histRest>>

\* {"type": "set_prompt", "prompt": prompt}: an empty prompt is ignored
CtlSetPrompt(prompt) ==
    /\ Receiving
    /\ Len(out) <= MaxControls
    /\ last_ctl' = "set_prompt"
    /\ IF prompt # ""
       THEN /\ history' = set_system_prompt(prompt)
            /\ out' = Append(out, "prompt_updated")
       ELSE UNCHANGED <<history, out>>
    /\ UNCHANGED <<turn, calls, histRest>>

\* a resolved transcript: handle_transcript(text) up to the language-model
\* request of generate_response, add_user_message(text) included
GenerateStarts(p, text) ==
    /\ turn[p].pc = "none"
    /\ Len(history) < MaxHistory
    /\ turn' = [turn EXCEPT ![p] = [pc |-> "llm", text |-> text, utt |-> 0]]
    /\ history' = add_user_message(history, text)
    /\ UNCHANGED <<calls, out, last_ctl, histRest>>

\* mutant: handle_transcript goes on to the synthesis whatever the response
GenerateReturns_AlwaysSpeaks(p, response) ==
    /\ turn[p].pc = "llm"
    /\ history' = add_assistant_message(history, response)
    /\ turn' = [turn EXCEPT ![p].pc = "tts"]
    /\ UNCHANGED <<calls, out, last_ctl, histRest>>

\* the language-model request returns response: add_assistant_message, and
\* handle_transcript goes on to the synthesis unless the response is empty
GenerateReturns(p, response) ==
    /\ turn[p].pc = "llm"
    /\ history' = add_assistant_message(history, response)
    /\ turn' = [turn EXCEPT ![p] = IF response = "" THEN NoTurn ELSE [@ EXCEPT !.pc = "tts"]]
    /\ UNCHANGED <<calls, out, last_ctl, histRest>>

\* the language-model request raises: the fallback process_messages() is awaited
GenerateRaises(p) ==
    /\ turn[p].pc = "llm"
    /\ turn' = [turn EXCEPT ![p].pc = "fallback"]
    /\ UNCHANGED <<history, calls, out, last_ctl, histRest>>

\* the fallback yields the text r, or raises ("raise"): then nothing is added
\* and handle_transcript catches the exception
FallbackReturns(p, r) ==
    /\ turn[p].pc = "fallback"
    /\ history' = IF r = "raise" THEN history ELSE add_assistant_message(history, r)
    /\ turn' = [turn EXCEPT ![p] = IF r \in {"raise", ""} THEN NoTurn
                                   ELSE [@ EXCEPT !.pc = "tts"]]
    /\ UNCHANGED <<calls, out, last_ctl, histRest>>

\* _speak_with_elevenlabs returns or raises: handle_transcript returns
SynthesisEnds(p) ==
    /\ turn[p].pc = "tts"
    /\ turn' = [turn EXCEPT ![p] = NoTurn]
    /\ UNCHANGED <<history, calls, out, last_ctl, histRest>>

NextHist ==
    \/ CtlClear
    \/ \E prompt \in Prompts : CtlSetPrompt(prompt)
    \/ \E p \in Paths, text \in FinalTexts : GenerateStarts(p, text)
    \/ \E p \in Paths, response \in Responses : GenerateReturns(p, response)
    \/ \E p \in Paths : GenerateRaises(p)
    \/ \E p \in Paths, r \in Responses \cup {"raise"} : FallbackReturns(p, r)
    \/ \E p \in Paths : SynthesisEnds(p)

SpecHist == InitHist /\ [][NextHist]_vars

\* OpenAILLMService.__init__: the history is empty
InitLlm ==
    /\ now = StartTime
    /\ is_connected = FALSE
    /\ connection = 0
    /\ last_interim_transcript = ""
    /\ last_interim_time = INITIAL_INTERIM_TIME
    /\ processed_final_in_session = FALSE
    /\ srv_pc = "none"
    /\ srv_wake = 0
    /\ msg_pc = "idle"
    /\ turn = [p \in Paths |-> NoTurn]
    /\ sent = << >>
    /\ calls = << >>
    /\ utt = 0
    /\ audio_in = 0
    /\ finals = 0
    /\ final_text = ""
    /\ final_at = "none"
    /\ stops = 0
    /\ heard = ""
    /\ heard_late = FALSE
    /\ interim_utt = 0
    /\ conns = << >>
    /\ ctask = [t \in ConnTasks |-> NoTask]
    /\ ka = << >>
    /\ keep_alive_task = 0
    /\ llm_ready = FALSE
    /\ out = << >>
    /\ ws = "closed"
    /\ dropped = 0
    /\ caught = FALSE
    /\ NoTransport
    /\ active = FALSE
    /\ disconnects = 0
    /\ cleanups = 0
    /\ NoSpeak
    /\ history = << >>
    /\ last_ctl = "none"

\* a caller's set_system_prompt(prompt)
SetSystemPrompt(prompt) ==
    /\ history' = set_system_prompt(prompt)
    /\ UNCHANGED <<turn, calls, out, last_ctl, histRest>>

\* a caller's add_user_message / add_assistant_message
AddMessage(role, message) ==
    /\ Len(history) < MaxHistory
    /\ history' = IF role = "user" THEN add_user_message(history, message)
                  ELSE add_assistant_message(history, message)
    /\ UNCHANGED <<turn, calls, out, last_ctl, histRest>>

\* a caller's clear_history(keep_system_prompt)
ClearHistory(keep_system_prompt) ==
    /\ history' = clear_history(history, keep_system_prompt)
    /\ UNCHANGED <<turn, calls, out, last_ctl, histRest>>

NextLlm ==
    \/ \E prompt \in Prompts : SetSystemPrompt(prompt)
    \/ \E role \in {"user", "assistant"} : AddMessage(role, "hi")
    \/ \E keep \in BOOLEAN : ClearHistory(keep)
    \/ \E p \in Paths, text \in FinalTexts : GenerateStarts(p, text)
    \/ \E p \in Paths, response \in Responses : GenerateReturns(p, response)
    \/ \E p \in Paths : GenerateRaises(p)
    \/ \E p \in Paths, r \in Responses \cup {"raise"} : FallbackReturns(p, r)
    \/ \E p \in Paths : SynthesisEnds(p)

SpecLlm == InitLlm /\ [][NextLlm]_vars

(***************************************************************************)
(* Specification SpecTurn: the turns of a ready session one after the      *)
(* other, each from handle_transcript's call of generate_response to its   *)
(* return, the synthesis call of the turn byte by byte.  SpecTurnFair: the *)
(* same with every awaited call returning or raising in the end.           *)
(***************************************************************************)
\* what a step of handle_transcript around the synthesis call leaves alone
turnRest == <<now, linkVars, srvVars, msg_pc, calls, sent, histVars, connVars, dropped,
              convVars, caught, transportVars, endVars>>

\* on_transcript(text) while no other invocation is in flight
TurnStarts(p, text) ==
    /\ \A q \in Paths : turn[q] = NoTurn
    /\ GenerateStarts(p, text)

\* await self._speak_with_elevenlabs(response, transport): the call
TurnSpeaks(p) ==
    /\ turn[p].pc = "tts"
    /\ speak_pc = "none"
    /\ speak_pc' = "begin"
    /\ buffer' = << >>
    /\ chunks' = << >>
    /\ written' = << >>
    /\ UNCHANGED <<turn, turnRest>>

\* mutant: an exception of the synthesis call is not caught
SpeakReturns_OnlyOnSuccess(p) ==
    /\ turn[p].pc = "tts"
    /\ speak_pc = "done"
    /\ turn' = [turn EXCEPT ![p] = NoTurn]
    /\ speak_pc' = "none"
    /\ UNCHANGED <<buffer, chunks, written, turnRest>>

\* _speak_with_elevenlabs has returned ("done") or raised ("failed", caught
\* by handle_transcript's except Exception): handle_transcript returns
SpeakReturns(p) ==
    /\ turn[p].pc = "tts"
    /\ speak_pc \in {"done", "failed"}
    /\ turn' = [turn EXCEPT ![p] = NoTurn]
    /\ speak_pc' = "none"
    /\ UNCHANGED <<buffer, chunks, written, turnRest>>

\* the calls of generate_response
LlmStep ==
    \/ \E p \in Paths, response \in Responses : GenerateReturns(p, response)
    \/ \E p \in Paths : GenerateRaises(p)
    \/ \E p \in Paths, r \in Responses \cup {"raise"} : FallbackReturns(p, r)

NextTurn ==
    \/ \E p \in Paths, text \in FinalTexts : TurnStarts(p, text)
    \/ LlmStep
    \/ \E p \in Paths : TurnSpeaks(p)
    \/ NextSpeak
    \/ \E p \in Paths : SpeakReturns(p)

SpecTurn == InitHist /\ [][NextTurn]_vars

\* every call a turn awaits returns or raises in the end, and the code
\* between two awaits runs
SpecTurnFair ==
    /\ SpecTurn
    /\ WF_vars(LlmStep)
    /\ WF_vars(\E p \in Paths : TurnSpeaks(p))
    /\ WF_vars(NextSpeak)
    /\ WF_vars(\E p \in Paths : SpeakReturns(p))

(***************************************************************************)
(* Specification SpecTransport: one WebSocketTransport whose methods are   *)
(* called one after the other by the task that owns it, with the two loops *)
(* start() creates, the pipeline that hands it frames, and the endpoint's  *)
(* handling of binary frames on either path.                               *)
(***************************************************************************)
\* what the transport leaves alone
transRest == <<now, srvVars, turnVars, utt, finals, final_text, final_at, stops, heard,
               heard_late, interim_utt, connVars, speakVars, convVars, endVars, caught>>

\* start() can create its two tasks
CanStart == transport._running \/ Len(loops) < 2 * MaxStarts

\* setup(task)
Transport_setup ==
    /\ call.pc = "idle"
    /\ ~transport._task
    /\ transport' = [transport EXCEPT !._task = TRUE]
    /\ UNCHANGED <<loops, call, queued, linkVars, sent, audio_in, dropped, transRest>>

\* a call of start()
Transport_start ==
    /\ call.pc = "idle"
    /\ CanStart
    /\ LET s == start(transport, loops)
       IN  transport' = s.transport /\ loops' = s.loops
    /\ UNCHANGED <<call, queued, linkVars, sent, audio_in, dropped, transRest>>

\* a call of stop() or of cleanup(), up to its return or its first suspension
Transport_stop(op) ==
    /\ call.pc = "idle"
    /\ LET s == stop(transport, loops, op)
       IN  transport' = s.transport /\ loops' = s.loops /\ call' = s.call
    /\ UNCHANGED <<queued, linkVars, sent, audio_in, dropped, transRest>>

\* the task stop() awaits is done: stop() goes on
AwaitReturns ==
    /\ call.pc \in {"await_input", "await_output"}
    /\ loops[call.task].pc = "done"
    /\ LET s == IF call.pc = "await_input"
                THEN stop_output(transport, loops, call.op)
                ELSE [transport |-> returns(transport, call.op), loops |-> loops,
                      call |-> NoCall]
       IN  transport' = s.transport /\ loops' = s.loops /\ call' = s.call
    /\ UNCHANGED <<queued, linkVars, sent, audio_in, dropped, transRest>>

\* the endpoint's branch for a binary frame: process_audio in direct mode,
\* transport.send_audio otherwise
ReceiveBinary(direct) ==
    /\ call.pc = "idle"
    /\ srv_pc = "recv"
    /\ audio_in < MaxFrames
    /\ audio_in' = audio_in + 1
    /\ IF direct
       THEN /\ IF ~is_connected
               THEN UNCHANGED <<linkVars, sent>> /\ dropped' = dropped + 1
               ELSE SendAudio(audio_in + 1) /\ UNCHANGED dropped
            /\ UNCHANGED <<transport, loops>>
       ELSE /\ CanStart
            /\ LET s == send_audio(transport, loops, audio_in + 1)
               IN  transport' = s.transport /\ loops' = s.loops
            /\ UNCHANGED <<linkVars, sent, dropped>>
    /\ UNCHANGED <<call, queued, transRest>>

\* receive_frame(frame), called by the pipeline
Transport_receive_frame ==
    /\ Len(transport._output_queue) < MaxFrames
    /\ transport' = [transport EXCEPT !._output_queue = Append(@, 1)]
    /\ UNCHANGED <<loops, call, queued, linkVars, sent, audio_in, dropped, transRest>>

\* user_started_speaking(): the frame (written 0) is queued into the pipeline,
\* or dropped when no PipelineTask is attached
Transport_user_started_speaking ==
    /\ call.pc = "idle"
    /\ Len(queued) <= MaxFrames
    /\ queued' = IF transport._task THEN Append(queued, 0) ELSE queued
    /\ UNCHANGED <<transport, loops, call, linkVars, sent, audio_in, dropped, transRest>>

\* a loop task runs for the first time
LoopRuns(i) ==
    /\ loops[i].pc = "created"
    /\ loops[i].cancels = 0
    /\ loops' = [loops EXCEPT ![i].pc = LoopHead(transport)]
    /\ UNCHANGED <<transport, call, queued, linkVars, sent, audio_in, dropped, transRest>>

\* wait_for(queue.get(), timeout=0.1) times out on the empty queue after
\* stop() has cleared the flag: the loop ends
LoopTimeout(i) ==
    /\ loops[i].pc = "get"
    /\ QueueOf(transport, loops[i].kind) = << >>
    /\ ~transport._running
    /\ loops' = [loops EXCEPT ![i].pc = "done"]
    /\ UNCHANGED <<transport, call, queued, linkVars, sent, audio_in, dropped, transRest>>

\* mutant: the loop takes the newest item of its queue
LoopGet_Newest(i) ==
    /\ loops[i].pc = "get"
    /\ QueueOf(transport, loops[i].kind) # << >>
    /\ LET q == QueueOf(transport, loops[i].kind)
           rest == SubSeq(q, 1, Len(q) - 1)
       IN  /\ loops' = [loops EXCEPT ![i].pc = "frame", ![i].item = q[Len(q)]]
           /\ transport' = IF loops[i].kind = "input"
                           THEN [transport EXCEPT !._input_queue = rest]
                           ELSE [transport EXCEPT !._output_queue = rest]
    /\ UNCHANGED <<call, queued, linkVars, sent, audio_in, dropped, transRest>>

\* queue.get() returns the oldest item
LoopGet(i) ==
    /\ loops[i].pc = "get"
    /\ QueueOf(transport, loops[i].kind) # << >>
    /\ LET q == QueueOf(transport, loops[i].kind)
       IN  /\ loops' = [loops EXCEPT ![i].pc = "frame", ![i].item = Head(q)]
           /\ transport' = IF loops[i].kind = "input"
                           THEN [transport EXCEPT !._input_queue = Tail(q)]
                           ELSE [transport EXCEPT !._output_queue = Tail(q)]
    /\ UNCHANGED <<call, queued, linkVars, sent, audio_in, dropped, transRest>>

\* the rest of the iteration: the input loop gives the frame to
\* PipelineTask.queue_frame (or drops it when none is attached), the output
\* loop gives its bytes to websocket.send_bytes; ok: that call did not raise
LoopDelivers(i, ok) ==
    /\ loops[i].pc = "frame"
    /\ queued' = IF loops[i].kind = "input" /\ transport._task /\ ok
                 THEN Append(queued, loops[i].item)
                 ELSE queued
    /\ loops' = [loops EXCEPT ![i].pc = LoopHead(transport), ![i].item = 0]
    /\ UNCHANGED <<transport, call, linkVars, sent, audio_in, dropped, transRest>>

\* the CancelledError of cancel() is raised in the task: the task ends
LoopCancelled(i) ==
    /\ loops[i].pc # "done"
    /\ loops[i].cancels > 0
    /\ loops' = [loops EXCEPT ![i].pc = "done", ![i].item = 0]
    /\ UNCHANGED <<transport, call, queued, linkVars, sent, audio_in, dropped, transRest>>

NextTransport ==
    \/ Transport_setup
    \/ Transport_start
    \/ \E op \in {"stop", "cleanup"} : Transport_stop(op)
    \/ AwaitReturns
    \/ \E direct \in BOOLEAN : ReceiveBinary(direct)
    \/ Transport_receive_frame
    \/ Transport_user_started_speaking
    \/ \E i \in DOMAIN loops : LoopRuns(i)
    \/ \E i \in DOMAIN loops : LoopTimeout(i)
    \/ \E i \in DOMAIN loops : LoopGet(i)
    \/ \E i \in DOMAIN loops, ok \in BOOLEAN : LoopDelivers(i, ok)
    \/ \E i \in DOMAIN loops : LoopCancelled(i)

SpecTransport == Init /\ [][NextTransport]_vars

(***************************************************************************)
(* Claims about the ready session                                          *)
(***************************************************************************)
TurnInFlight(p) == turn[p].pc # "none"

\* C1: when an utterance had interim events before its only
\* user_stopped_speaking and its one final event is dispatched during the
\* settle wait of that finalize(), the utterance gets exactly
\* one generation call, with the final text, whatever the interleaving of the
\* final's callback with the fallback check.
C1_OneGenerationWithFinal ==
    (utt >= 1 /\ heard # "" /\ ~heard_late /\ finals = 1 /\ stops = 1
            /\ final_at = "fin_sleep")
        => CallsOf(utt) = <<final_text>>

C3_FallbackOnce ==
    [][(srv_pc = "fin_sleep" /\ srv_pc' # "fin_sleep"
            /\ finals = 0 /\ stops = 1 /\ heard # "" /\ ~heard_late)
        => IF InterimFresh
           THEN calls' = Append(calls, [text |-> heard, via |-> "fallback", utt |-> utt])
           ELSE calls' = calls]_vars

\* C4: a further final event of an utterance, dispatched when the utterance
\* is already resolved (_processed_final_in_session is True), invokes
\* on_transcript zero times.
C4_DuplicateFinalIgnored ==
    [][(finals >= 1 /\ finals' > finals /\ processed_final_in_session)
        => calls' = calls]_vars

\* C5: at no time are two handle_transcript invocations in flight.
C5_OneTurnAtATime == ~(TurnInFlight("final") /\ TurnInFlight("fallback"))


(***************************************************************************)
(* Claims about the connection life cycle                                  *)
(***************************************************************************)
Reconnects == ConnTasks \ {1}
TearingDown == srv_pc \in {"teardown", "done"}

\* C6 (as claimed): ready is sent only after connect() returned True; when
\* connect() has exhausted its retries, ready is never sent, no audio is
\* processed, and by the time the teardown runs the server has sent the error
\* message and closed the socket with code 1011.
C6_SetupFailureReported ==
    /\ (\E i \in 1..Len(out) : out[i] = "ready") => ctask[1].result = "true"
    /\ ctask[1].result = "false" =>
        /\ \A i \in 1..Len(out) : out[i] # "ready"
        /\ audio_in = 0
        /\ TearingDown => out = <<"error", "close1011">>

\* C6 (amended): as above, but the error message and the close are best
\* effort: both are made if the client is still there, and none after the
\* client went away; the teardown runs in either case.
C6_SetupFailureBestEffort ==
    /\ (\E i \in 1..Len(out) : out[i] = "ready") => ctask[1].result = "true"
    /\ ctask[1].result = "false" =>
        /\ \A i \in 1..Len(out) : out[i] # "ready"
        /\ audio_in = 0
        /\ srv_pc \in {"err_close", "teardown", "done"}
        /\ TearingDown =>
            IF ws = "gone"
            THEN out \in {<< >>, <<"error">>}
            ELSE out = <<"error", "close1011">> /\ ws = "closed"

C6_Witness ==
    /\ ctask[1].result = "false"
    /\ ctask[1].attempt = SETUP_RETRIES - 1
    /\ srv_pc = "done"
    /\ out = <<"error", "close1011">>

\* C7: once a reconnect started by a Close event has used up its retries
\* and the link is still disconnected, the session no longer presents itself
\* as ready.
C7_ReconnectOrUnusable ==
    \A t \in Reconnects :
        (ctask[t].pc = "done" /\ ctask[t].result = "false" /\ ~is_connected
            /\ srv_pc = "recv")
        => ~IsReady

\* C8: at most one reconnect started by _on_close is in flight at a time.
C8_OneReconnectInFlight ==
    Cardinality({t \in Reconnects : ctask[t].pc \notin {"none", "done"}}) <= 1

\* C9: an audio frame handled while the link is disconnected is dropped:
\* nothing is sent to the provider, the link's state does not change
\* (is_connected stays False), and the message loop goes on as before.
C9_DroppedWhileDisconnected ==
    [][(audio_in' # audio_in /\ ~is_connected)
        => /\ sent' = sent
           /\ UNCHANGED linkVars
           /\ srv_pc' = srv_pc
           /\ out' = out]_vars

C9_Witness ==
    /\ dropped > 0
    /\ ~is_connected
    /\ srv_pc = "recv"
    /\ sent = << >>

(***************************************************************************)
(* Claims about speech synthesis                                           *)
(***************************************************************************)
\* the bytes of all the chunks yielded so far, in order
Yielded == Norm(Flat(chunks))

\* C10: the chunk buffering neither loses, repeats nor reorders a byte: while
\* the response is read, the byte strings written to the socket followed by
\* the buffer are the concatenation of the chunks yielded so far, and when
\* the call returns what was written is the concatenation of all the chunks.
C10_BufferingRoundTrip ==
    /\ speak_pc \in {"stream", "drain"} => Norm(Flat(written) \o buffer) = Yielded
    /\ speak_pc = "done" => Norm(Flat(written)) = Yielded

\* a body larger than CHUNK_SIZE with an empty chunk in it, sent as full
\* chunks and a shorter last one
C10_Witness ==
    /\ speak_pc = "done"
    /\ \E i \in DOMAIN chunks : chunks[i] = << >>
    /\ BLen(Flat(chunks)) > CHUNK_SIZE
    /\ Len(written) >= 2
    /\ BLen(written[Len(written)]) < CHUNK_SIZE
    /\ \A i \in 1..(Len(written) - 1) : BLen(written[i]) = CHUNK_SIZE

(***************************************************************************)
(* Claims about the conversation history                                   *)
(***************************************************************************)
\* C11: the clear message leaves exactly the system message in the history
\* and is answered with "cleared"; the set_prompt message that follows it,
\* with a non-empty prompt, replaces the system message and changes no other
\* entry of the history.
C11_ClearThenSetPrompt ==
    [][/\ (last_ctl' = "clear" /\ out' # out) =>
            /\ history # << >> /\ Head(history).role = "system"
            /\ history' = <<Head(history)>>
            /\ out' = Append(out, "cleared")
       /\ (last_ctl = "clear" /\ out' = Append(out, "prompt_updated")) =>
            \E prompt \in Prompts \ {""} :
                history' = <<SystemMessage(prompt)>> \o Tail(history)]_vars

\* the entries of h with role "system"
SystemEntries(h) == {i \in DOMAIN h : h[i].role = "system"}

\* C12: whatever the sequence of calls, the history holds at most one
\* system entry, and it is the first entry.
C12_OneSystemFirst == SystemEntries(history) \subseteq {1}

\* a system prompt was set after messages had been added, and a
\* generate_response is in flight
C12_Witness ==
    /\ SystemEntries(history) = {1}
    /\ Len(history) >= 3
    /\ \E p \in Paths : turn[p].pc \in {"llm", "fallback"}

(***************************************************************************)
(* Claims about errors and interruptions during a turn                     *)
(***************************************************************************)
\* a turn of path p ends in this step
TurnEnds(p) == TurnInFlight(p) /\ turn'[p] = NoTurn

\* C13: when handle_transcript has caught an exception of the language-model
\* call or of the synthesis, the turn is over, its caller goes on (the event
\* handler returns, the server loop receives again), the link and the socket
\* are as they were; and the next final transcript still starts a generation.
C13_ExceptionsCaught ==
    [][/\ \A p \in Paths : (TurnEnds(p) /\ caught') =>
            /\ is_connected' = is_connected /\ connection' = connection
            /\ conns' = conns /\ ws' = ws /\ out' = out
            /\ IF p = "final"
               THEN msg_pc' = "idle" /\ srv_pc' = srv_pc
               ELSE srv_pc' = "recv"
       /\ (caught /\ finals' > finals) =>
            /\ turn'["final"].pc = "llm"
            /\ Len(calls') = Len(calls) + 1
            /\ calls'[Len(calls')].via = "final"]_vars

\* an exception was caught, and the session is idle, connected and receiving
C13_Witness ==
    /\ caught
    /\ \A p \in Paths : ~TurnInFlight(p)
    /\ is_connected
    /\ srv_pc = "recv"
    /\ msg_pc = "idle"
    /\ ws = "open"

(***************************************************************************)
(* Claims about the teardown                                               *)
(***************************************************************************)
\* the connect() tasks and keep-alive tasks that have not finished
RunningConnects == {t \in ConnTasks : ctask[t].pc \notin {"none", "done"}}
RunningKeepAlives == {k \in DOMAIN ka : ka[k] # "done"}

\* C14: once the teardown of the endpoint is over, no keep-alive task and no
\* reconnect started by _on_close is running, and the link is not connected
\* (the teardown is the last step of the server task, so this also says that
\* the link never becomes connected again).
C14_TeardownStopsAll ==
    srv_pc = "done" =>
        /\ RunningKeepAlives = {}
        /\ RunningConnects = {}
        /\ ~is_connected

\* the number of entries of a sequence that equal x
Count(seq, x) == Cardinality({i \in DOMAIN seq : seq[i] = x})

\* C15: however the connection ends, and whether or not the application's
\* shutdown also cleans up the connection, the link's disconnect runs at most
\* once (exactly once when the teardown is over), the socket is closed by the
\* server at most once, and the transport's cleanup, run once or twice,
\* leaves the transport stopped with no task cancelled twice.
C15_TeardownOnce ==
    /\ disconnects <= 1
    /\ cleanups <= 2
    /\ Count(out, "close1011") <= 1
    /\ ~transport._running
    /\ \A i \in DOMAIN loops : loops[i].cancels <= 1
    /\ srv_pc = "done" => (disconnects = 1 /\ cleanups >= 1 /\ ~active)

\* the teardown is over and the application's shutdown has cleaned up too
C15_Witness ==
    /\ srv_pc = "done"
    /\ cleanups = 2
    /\ disconnects = 1
    /\ ~active

(***************************************************************************)
(* Claims about the transport                                              *)
(***************************************************************************)
\* the transport and its tasks as a method finds them
Here == [transport |-> transport, loops |-> loops]

\* C16: _running is False on a new transport and until the first start; in
\* every reachable state in which a method can be called, start() and
\* send_audio() leave it True, stop() and cleanup() leave it False (at their
\* first suspension, while they are suspended, and when they return), start()
\* on a running transport changes nothing and stop() on a stopped one
\* changes nothing and returns at once.
C16_RunningLifecycle ==
    /\ ~transport._running
    /\ [](/\ loops = << >> => ~transport._running
          /\ call.pc # "idle" => ~transport._running
          /\ call.pc = "idle" =>
                /\ start(transport, loops).transport._running
                /\ send_audio(transport, loops, 1).transport._running
                /\ \A op \in {"stop", "cleanup"} :
                      ~stop(transport, loops, op).transport._running
                /\ transport._running => start(transport, loops) = Here
                /\ ~transport._running =>
                      stop(transport, loops, "stop") =
                          [transport |-> transport, loops |-> loops, call |-> NoCall])
    /\ [][(call # NoCall /\ call' = NoCall) => ~transport'._running]_vars

\* a stopped transport was started again by send_audio
C16_Witness ==
    /\ transport._running
    /\ Len(loops) = 4
    /\ loops[1].pc = "done"
    /\ loops[1].cancels = 1
    /\ transport._input_queue # << >>
    /\ call = NoCall

\* the transport is stopped, its loops have finished and its queues are empty
CleanedUp(tr, lp) ==
    /\ ~tr._running
    /\ \A i \in DOMAIN lp : lp[i].pc = "done"
    /\ tr._input_queue = << >>
    /\ tr._output_queue = << >>

\* C17: when cleanup() returns, at once or after its awaits, whatever the
\* queues held and wherever the loops were when it was called, the transport
\* is not running, every loop task has finished and both queues are empty.
C17_CleanupLeavesNothing ==
    /\ [](call.pc = "idle" =>
            LET s == stop(transport, loops, "cleanup")
            IN  s.call = NoCall => CleanedUp(s.transport, s.loops))
    /\ [][(call.op = "cleanup" /\ call' = NoCall) => CleanedUp(transport', loops')]_vars

\* cleanup() is about to return from its last await with items in both queues
C17_Witness ==
    /\ call.op = "cleanup"
    /\ call.pc = "await_output"
    /\ loops[call.task].pc = "done"
    /\ transport._input_queue # << >>
    /\ transport._output_queue # << >>

\* a sequence of chunk numbers in the order the frames were received
InOrder(seq) == \A i, j \in DOMAIN seq : i < j => seq[i] < seq[j]
IsAudio(frame) == frame > 0

\* C18: the chunks given to the provider's connection (direct path) and the
\* audio frames given to the pipeline (transport path) are each in the order
\* in which the endpoint received the binary frames they come from; frames
\* are numbered in the order of receipt.
C18_AudioInOrder ==
    /\ InOrder(sent)
    /\ InOrder(SelectSeq(queued, IsAudio))

\* two frames went through the input queue and its loop
C18_Witness ==
    /\ SelectSeq(queued, IsAudio) = <<1, 2>>
    /\ audio_in = 2

(***************************************************************************)
(* Claims about interruptions                                              *)
(***************************************************************************)
\* C19: a user_started_speaking message handled while a response is being
\* generated or spoken leaves that turn as it is: it is neither cancelled
\* nor moved, no generation is started or dropped, and nothing is written to
\* the client or changed on the link.
C19_NoBargeIn ==
    [][(utt' # utt) =>
          /\ turn' = turn
          /\ calls' = calls
          /\ msg_pc' = msg_pc
          /\ UNCHANGED <<speakVars, out, ws, is_connected, connection>>]_vars

\* the client started a new utterance while the turn of an earlier one is in
\* flight
C19_Witness ==
    \E p \in Paths :
        /\ TurnInFlight(p)
        /\ turn[p].utt < utt
        /\ srv_pc = "recv"

(***************************************************************************)
(* Claims about connect()                                                  *)
(***************************************************************************)
\* C20: a call connect(max_retries) is never in an attempt beyond the
\* max_retries-th and ends by returning True or False; it returns True only
\* from the settle wait of an attempt whose start() succeeded, with
\* is_connected set by an Open event, and it has then started the keep-alive
\* task; an attempt that fails before the last is followed by the sleep and
\* the next attempt; it returns False only when the last attempt has failed.
C20_BoundedConnect ==
    /\ [](\A t \in ConnTasks :
            /\ ctask[t].pc # "none" => ctask[t].attempt < ctask[t].max
            /\ ctask[t].pc = "done" <=> ctask[t].result \in {"true", "false"})
    /\ [][\A t \in ConnTasks :
            /\ (ctask'[t].result = "true" /\ ctask[t].result # "true") =>
                  /\ ctask[t].pc = "settle"
                  /\ is_connected
                  /\ \E c \in DOMAIN conns : conns[c] = "open"
                  /\ keep_alive_task' = Len(ka) + 1
                  /\ ka'[keep_alive_task'] = "sleeping"
            /\ (ctask'[t].result = "false" /\ ctask[t].result # "false") =>
                  /\ ctask[t].pc \in {"start", "settle"}
                  /\ ctask[t].attempt = ctask[t].max - 1
            /\ (ctask[t].pc \in {"start", "settle"} /\ ctask'[t].pc \notin {"start", "settle"}
                  /\ ctask'[t].result # "true" /\ ctask[t].attempt < ctask[t].max - 1) =>
                  ctask'[t].pc = "backoff"
            /\ (ctask[t].pc = "backoff" /\ ctask'[t] # ctask[t]) =>
                  /\ ctask'[t].pc = "start"
                  /\ ctask'[t].attempt = ctask[t].attempt + 1]_vars

\* the connect() of setup returned True from a retry
C20_Witness ==
    /\ ctask[1].result = "true"
    /\ ctask[1].attempt >= 1
    /\ is_connected
    /\ keep_alive_task # 0
    /\ ka[keep_alive_task] = "sleeping"

(***************************************************************************)
(* Claims about the size of the writes of a synthesis                      *)
(***************************************************************************)
\* C21 (as claimed): every write but the last has exactly CHUNK_SIZE bytes,
\* no write is empty, and when the call has returned the last write is a
\* remainder of 1..CHUNK_SIZE - 1 bytes.
C21_LastIsRemainder ==
    /\ \A i \in DOMAIN written :
          /\ BLen(written[i]) >= 1
          /\ i < Len(written) => BLen(written[i]) = CHUNK_SIZE
    /\ (speak_pc = "done" /\ written # << >>) =>
          BLen(written[Len(written)]) \in 1..(CHUNK_SIZE - 1)

\* C21 (amended): at any moment of a synthesis every write made so far has between 1
\* and CHUNK_SIZE bytes and every write but the last has exactly CHUNK_SIZE;
\* when the call has returned, the writes are the full chunks of the body
\* followed, when the body is not a multiple of CHUNK_SIZE, by one write of
\* the remainder (1..CHUNK_SIZE - 1 bytes).
C21_AlignedWrites ==
    /\ \A i \in DOMAIN written :
          /\ BLen(written[i]) >= 1
          /\ BLen(written[i]) <= CHUNK_SIZE
          /\ i < Len(written) => BLen(written[i]) = CHUNK_SIZE
    /\ speak_pc \in {"stream", "drain"} =>
          \A i \in DOMAIN written : BLen(written[i]) = CHUNK_SIZE
    /\ speak_pc = "done" =>
          LET total == BLen(Flat(chunks))
          IN  /\ Len(written) = (total + CHUNK_SIZE - 1) \div CHUNK_SIZE
              /\ total % CHUNK_SIZE > 0 =>
                    BLen(written[Len(written)]) = total % CHUNK_SIZE

\* a body of two full chunks and one byte more was written as three writes
C21_Witness ==
    /\ speak_pc = "done"
    /\ BLen(Flat(chunks)) = 2 * CHUNK_SIZE + 1
    /\ Len(written) = 3
    /\ BLen(written[3]) = 1

(***************************************************************************)
(* Claims about the end of a turn                                          *)
(***************************************************************************)
\* generate_response has just recorded the empty response of the turn of p
EmptyResponseTo(p) ==
    /\ turn[p].pc \in {"llm", "fallback"}
    /\ turn'[p] # turn[p]
    /\ history' = add_assistant_message(history, "")

\* C22: when generate_response returns an empty response, the turn is over
\* at once: it never enters the synthesis, and nothing of the speech state
\* or of the client socket changes.
C22_EmptyResponseNoSpeech ==
    [][\A p \in Paths : EmptyResponseTo(p) =>
            /\ turn'[p] = NoTurn
            /\ UNCHANGED <<speakVars, out, ws>>]_vars

\* a turn has ended on an empty response
C22_Witness ==
    /\ history # << >>
    /\ history[Len(history)] = [role |-> "assistant", content |-> ""]
    /\ \A p \in Paths : turn[p] = NoTurn

(***************************************************************************)
(* Claims about the Transcript events                                      *)
(***************************************************************************)
\* the payloads the handler reads no text from
Ignored == {m \in Payloads : TranscriptOf(m) = ""}
\* what the handler makes of them: the text and whether it is final
IgnoredEvents == {<<TranscriptOf(m), FinalOf(m)>> : m \in Ignored}

\* C23: a Transcript event without result, channel or alternatives, or with
\* an empty transcript, final or not, is without effect in whatever state
\* it arrives: the handler leaves the last interim, its time and the
\* resolved flag as they are and does not invoke on_transcript.
C23_EmptyEventIgnored ==
    \A e \in IgnoredEvents :
        on_message(e[1], e[2]) =
            [_last_interim_transcript |-> last_interim_transcript,
             _last_interim_time |-> last_interim_time,
             _processed_final_in_session |-> processed_final_in_session,
             on_transcript |-> FALSE]

\* an utterance with a stored interim is unresolved when an event can arrive
C23_Witness ==
    /\ Malformed \subseteq Ignored
    /\ \E m \in Ignored : FinalOf(m) /\ m.alternatives = <<"">>
    /\ IgnoredEvents = {<<"", TRUE>>, <<"", FALSE>>}
    /\ msg_pc = "idle"
    /\ utt >= 1
    /\ last_interim_transcript # ""
    /\ ~processed_final_in_session
    /\ srv_pc = "fin_sleep"
    /\ now > last_interim_time

\* an inbound chunk is given to send_audio on a connected link
AudioForwarded == audio_in' = audio_in + 1 /\ sent' # sent

\* finalize()'s check of the first user_stopped_speaking of a later utterance
\* that had interim events and no final event
LaterFallbackCheck ==
    /\ srv_pc = "fin_sleep"
    /\ srv_pc' # "fin_sleep"
    /\ utt >= 2
    /\ finals = 0
    /\ stops = 1
    /\ heard # ""

\* C24: a chunk arriving more than 3.0 s after the last interim clears
\* _processed_final_in_session, a chunk arriving within 3.0 s leaves it as it
\* is, and when the fallback check of a later utterance is evaluated the
\* flag set by an earlier utterance has been cleared.
C24_ResetAllowsNewCycle ==
    [][/\ (AudioForwarded /\ ResetCondition) => ~processed_final_in_session'
       /\ (AudioForwarded /\ ~ResetCondition) => UNCHANGED processed_final_in_session
       /\ LaterFallbackCheck => ~processed_final_in_session]_vars

(***************************************************************************)
(* Claims about the keep-alive loop and disconnect()                       *)
(***************************************************************************)
\* a keep-alive loop is running on a connected link: its next
\* "if self.is_connected and self.connection" sends a keep-alive
KeepAliveSends == is_connected /\ connection # 0 /\ RunningKeepAlives # {}

\* C25: at any time at most one keep-alive loop of the link is running, and
\* once disconnect() has returned no keep-alive loop sends a keep-alive again.
C25_KeepAliveStopsOnDisconnect ==
    /\ Cardinality(RunningKeepAlives) <= 1
    /\ disconnects >= 1 => ~KeepAliveSends

(***************************************************************************)
(* Claims about the course of a turn                                       *)
(***************************************************************************)
\* what was written to the socket is the whole body of the response
AllWritten == Norm(Flat(written)) = Norm(Flat(chunks))

\* C26: a turn that has started ends (handle_transcript returns) whenever
\* every awaited call returns or raises in the end: after an empty response,
\* after an exception of the language model or of the synthesis, and after a
\* synthesis that succeeded, then only when every byte of the body, the
\* last partial chunk included, has been written to the socket.
C26_TurnEnds ==
    /\ \A p \in Paths : (turn[p].pc # "none") ~> (turn[p] = NoTurn)
    /\ [][\A p \in Paths :
            (turn[p].pc = "tts" /\ turn'[p] = NoTurn /\ speak_pc = "done")
                => AllWritten]_vars

\* a turn has ended after a synthesis of a body with a partial last chunk
C26_Witness ==
    /\ \A p \in Paths : turn[p] = NoTurn
    /\ speak_pc = "none"
    /\ BLen(Flat(chunks)) = CHUNK_SIZE + 1
    /\ Len(written) = 2
    /\ AllWritten

(***************************************************************************)
(* Claims about the history during a turn                                  *)
(***************************************************************************)
\* generate_response of path p is between its two appends
Generating(p) == turn[p].pc \in {"llm", "fallback"}

\* user and assistant entries alternate in h, the user entry first; a last
\* user entry without its assistant entry is that of a turn in flight
RECURSIVE Paired(_)
Paired(h) ==
    IF h = << >> THEN TRUE
    ELSE IF Len(h) = 1 THEN Head(h).role = "user" /\ \E p \in Paths : Generating(p)
    ELSE /\ h[1].role = "user"
         /\ h[2].role = "assistant"
         /\ Paired(Tail(Tail(h)))

\* C27: while a generate_response is between its append of the user message
\* and its append of the assistant message, the only change of the history
\* is that assistant append, and so the history is always the system entry
\* followed by user/assistant pairs.
C27_NoConcurrentMutation ==
    /\ [](history # << >> /\ Head(history).role = "system" /\ Paired(Tail(history)))
    /\ [][\A p \in Paths : (Generating(p) /\ history' # history) =>
            /\ ~Generating(p)'
            /\ \E r \in Responses : history' = add_assistant_message(history, r)]_vars

\* C28: the set_prompt message with a non-empty prompt, at whatever point of
\* the conversation it arrives, leaves a history of exactly one entry, the
\* new system message: the user and assistant messages are gone too.
C28_SetPromptResets ==
    [][out' = Append(out, "prompt_updated") =>
            /\ Len(history') = 1
            /\ \E prompt \in Prompts \ {""} : history' = <<SystemMessage(prompt)>>]_vars

\* the prompt was set while a turn that had added its user message awaits
\* the language model
C28_Witness ==
    /\ last_ctl = "set_prompt"
    /\ history = <<SystemMessage("pirate")>>
    /\ Generating("final")
    /\ out[Len(out)] = "prompt_updated"

\* C29: when disconnect() returns on a link that had a connection, the link
\* is not connected, whether connection.finish() returned or raised.
C29_DisconnectedAfterDisconnect ==
    [][(disconnects' = disconnects + 1 /\ connection # 0) => ~is_connected']_vars

(***************************************************************************)
(* Claims about the stored interim                                         *)
(***************************************************************************)
\* finalize() evaluates its fallback check in this step
FallbackEvaluated == srv_pc = "fin_sleep" /\ srv_pc' # "fin_sleep"

\* C30: when the callback of a final event or of the fallback has completed,
\* the stored interim is empty and _processed_final_in_session is True; only
\* an interim event stores a text again; and a fallback check that finds no
\* stored interim starts no generation.  So a finalize() repeated without a
\* new interim event does not use the interim again.
C30_InterimNotReplayed ==
    [][/\ (\E p \in Paths : TurnEnds(p)) =>
            (last_interim_transcript' = "" /\ processed_final_in_session')
       /\ (last_interim_transcript' # "" /\ last_interim_transcript' # last_interim_transcript) =>
            (heard' = last_interim_transcript' /\ UNCHANGED <<calls, turn, srv_pc>>)
       /\ (FallbackEvaluated /\ last_interim_transcript = "") => UNCHANGED <<calls, turn>>]_vars

\* the fallback used the interim of the utterance, and a second
\* user_stopped_speaking of the same utterance started nothing more
C30_Witness ==
    /\ stops = 2
    /\ srv_pc = "recv"
    /\ heard # ""
    /\ ~heard_late
    /\ last_interim_transcript = ""
    /\ processed_final_in_session
    /\ \A p \in Paths : turn[p] = NoTurn
    /\ calls = <<[text |-> heard, via |-> "fallback", utt |-> utt]>>

====
